---- MODULE Spec2Model ----
(***************************************************************************)
(* Model of the my-interval library: extended bound points               *)
(* (BoundProximity, BoundValue, BoundPoint) with their derived total     *)
(* order, and Interval with its factories, contains and overlaps.        *)
(* The axis T is instantiated with the integers 0..MaxVal.               *)
(***************************************************************************)
EXTENDS Integers, Sequences, FiniteSets, TLC

VARIABLES
    iv,      \* iv[s]: the Interval a caller holds in binding s; <<>> when none
    origin,  \* origin[s]: the factory call that produced iv[s] (history)
    last,    \* the most recent call into the library, with its return value
    pts,     \* three bound points handed to the comparison operators
    ord      \* ord[pr]: the Ordering returned for the pair pr of pts, <<>> before

vars == <<iv, origin, last, pts, ord>>

\* Largest raw value of the axis T used by the model.
MaxVal == 2

Values == 0..MaxVal

----------------------------------------------------------------------------
(* std::cmp::Ordering and T's own order (i32)                              *)

Ordering == {"Less", "Equal", "Greater"}

\* <i32 as Ord>::cmp
CmpT(x, y) == IF x < y THEN "Less" ELSE IF x > y THEN "Greater" ELSE "Equal"

----------------------------------------------------------------------------
(* bound_point/bound_proximity.rs                                          *)

BoundProximity == {"Before", "At", "After"}

\* Discriminant of a BoundProximity variant: its position in the declaration.
ProximityDiscriminant(p) ==
    CASE p = "Before" -> 0
      [] p = "At"     -> 1
      [] p = "After"  -> 2

\* #[derive(PartialOrd, Ord)] on a field-less enum compares discriminants.
CmpProximity(p, q) == CmpT(ProximityDiscriminant(p), ProximityDiscriminant(q))

----------------------------------------------------------------------------
(* bound_point/bound_value.rs                                              *)

NegInfinity == [variant |-> "NegInfinity"]
Finite(v, p) == [variant |-> "Finite", value |-> v, proximity |-> p]
PosInfinity == [variant |-> "PosInfinity"]

BoundValue ==
    {NegInfinity, PosInfinity} \cup {Finite(v, p) : v \in Values, p \in BoundProximity}

\* Discriminant of a BoundValue variant: its position in the declaration.
ValueDiscriminant(x) ==
    CASE x.variant = "NegInfinity" -> 0
      [] x.variant = "Finite"      -> 1
      [] x.variant = "PosInfinity" -> 2

\* A faulty order: two Finite values compared by proximity before value.
CmpBoundValue_proximity_first(x, y) ==
    IF ValueDiscriminant(x) # ValueDiscriminant(y)
    THEN CmpT(ValueDiscriminant(x), ValueDiscriminant(y))
    ELSE IF x.variant = "Finite"
         THEN IF CmpProximity(x.proximity, y.proximity) # "Equal"
              THEN CmpProximity(x.proximity, y.proximity)
              ELSE CmpT(x.value, y.value)
         ELSE "Equal"

\* #[derive(PartialOrd, Ord)] on BoundValue<T>: discriminants first; two Finite
\* values compare their fields in declaration order, T then BoundProximity.
CmpBoundValue(x, y) ==
    IF ValueDiscriminant(x) # ValueDiscriminant(y)
    THEN CmpT(ValueDiscriminant(x), ValueDiscriminant(y))
    ELSE IF x.variant = "Finite"
         THEN IF CmpT(x.value, y.value) # "Equal"
              THEN CmpT(x.value, y.value)
              ELSE CmpProximity(x.proximity, y.proximity)
         ELSE "Equal"

----------------------------------------------------------------------------
(* bound_point/bound_point.rs                                              *)

BoundPoint == {[value |-> x] : x \in BoundValue}

before(value) == [value |-> Finite(value, "Before")]
at(value) == [value |-> Finite(value, "At")]
after(value) == [value |-> Finite(value, "After")]
neg_infinity == [value |-> NegInfinity]
pos_infinity == [value |-> PosInfinity]

\* #[derive(PartialOrd, Ord)] on the one-field struct: the order of its value.
CmpBoundPoint(x, y) == CmpBoundValue(x.value, y.value)

\* The comparison operators the derive provides.
Le(x, y) == CmpBoundPoint(x, y) \in {"Less", "Equal"}
Ge(x, y) == CmpBoundPoint(x, y) \in {"Greater", "Equal"}
Lt(x, y) == CmpBoundPoint(x, y) = "Less"
Gt(x, y) == CmpBoundPoint(x, y) = "Greater"

----------------------------------------------------------------------------
(* interval.rs                                                             *)

IntervalType == {"Open", "StartOpen", "EndOpen", "Close"}

Interval(s, e) == [start |-> s, end |-> e]

Ok(x) == [tag |-> "Ok", val |-> x]
Err(e) == [tag |-> "Err", err |-> e]

StartMustBeMinorThanEnd == "StartMustBeMinorThanEnd"

\* A faulty validation: equal endpoints rejected as well.
validate_rejects_equal(start, end) ==
    IF start >= end THEN Err(StartMustBeMinorThanEnd) ELSE Ok(<<>>)

validate(start, end) ==
    IF start > end THEN Err(StartMustBeMinorThanEnd) ELSE Ok(<<>>)

\* A faulty mapping: the bounds of StartOpen and EndOpen exchanged.
from_to_kinds_swapped(start, end, interval_type) ==
    IF validate(start, end).tag = "Err"
    THEN validate(start, end)
    ELSE CASE interval_type = "Open"      -> Ok(Interval(after(start), before(end)))
           [] interval_type = "StartOpen" -> Ok(Interval(at(start), before(end)))
           [] interval_type = "EndOpen"   -> Ok(Interval(after(start), at(end)))
           [] interval_type = "Close"     -> Ok(Interval(at(start), at(end)))

from_to(start, end, interval_type) ==
    IF validate(start, end).tag = "Err"
    THEN validate(start, end)
    ELSE CASE interval_type = "Open"      -> Ok(Interval(after(start), before(end)))
           [] interval_type = "StartOpen" -> Ok(Interval(after(start), at(end)))
           [] interval_type = "EndOpen"   -> Ok(Interval(at(start), before(end)))
           [] interval_type = "Close"     -> Ok(Interval(at(start), at(end)))

\* A faulty factory: the exclusive start placed at the value.
since_exclusive_at(value) == Interval(at(value), pos_infinity)

since_exclusive(value) == Interval(after(value), pos_infinity)
since_inclusive(value) == Interval(at(value), pos_infinity)

\* A faulty factory: the exclusive end placed at the value.
until_exclusive_at(value) == Interval(neg_infinity, at(value))

until_exclusive(value) == Interval(neg_infinity, before(value))
until_inclusive(value) == Interval(neg_infinity, at(value))

\* A faulty membership test: both comparisons strict.
contains_strict(self, value) ==
    LET bound_point == at(value)
    IN  Lt(self.start, bound_point) /\ Gt(self.end, bound_point)

contains(self, value) ==
    LET bound_point == at(value)
    IN  Le(self.start, bound_point) /\ Ge(self.end, bound_point)

\* Faulty overlap tests: the first comparison strict; both strict; and the
\* starts and the ends compared with each other.
overlaps_first_strict(self, other) ==
    Lt(self.start, other.end) /\ Ge(self.end, other.start)

overlaps_strict(self, other) ==
    Lt(self.start, other.end) /\ Gt(self.end, other.start)

overlaps_covers(self, other) ==
    Le(self.start, other.start) /\ Ge(self.end, other.end)

overlaps(self, other) ==
    Le(self.start, other.end) /\ Ge(self.end, other.start)

----------------------------------------------------------------------------
(* A caller of the library: two bindings, each holding at most one Interval *)

Slots == {"a", "b"}

Unbounded == {"since_exclusive", "since_inclusive", "until_exclusive", "until_inclusive"}

Queries == {"contains", "overlaps"}

Built(s) == iv[s] # <<>>

\* The interval held in binding s.
The(s) == iv[s][1]

CallUnbounded(f, value) ==
    CASE f = "since_exclusive" -> since_exclusive(value)
      [] f = "since_inclusive" -> since_inclusive(value)
      [] f = "until_exclusive" -> until_exclusive(value)
      [] f = "until_inclusive" -> until_inclusive(value)

NoCall == [op |-> "none"]

\* let s = Interval::from_to(start, end, kind): binds s when the result is Ok.
FromTo(s, start, end, kind) ==
    /\ ~Built(s)
    /\ LET r == from_to(start, end, kind)
           call == [op |-> "from_to", start |-> start, end |-> end,
                    kind |-> kind, result |-> r]
       IN  /\ last' = call
           /\ IF r.tag = "Ok"
              THEN /\ iv' = [iv EXCEPT ![s] = <<r.val>>]
                   /\ origin' = [origin EXCEPT ![s] = call]
              ELSE UNCHANGED <<iv, origin>>
    /\ UNCHANGED <<pts, ord>>

\* let s = Interval::since_*(value) / Interval::until_*(value).
Factory(s, f, value) ==
    /\ ~Built(s)
    /\ LET call == [op |-> f, value |-> value, result |-> CallUnbounded(f, value)]
       IN  /\ last' = call
           /\ iv' = [iv EXCEPT ![s] = <<call.result>>]
           /\ origin' = [origin EXCEPT ![s] = call]
    /\ UNCHANGED <<pts, ord>>

\* A faulty query: contains taking its receiver mutably and cutting its end.
Contains_cuts_end(s, value) ==
    /\ Built(s)
    /\ last' = [op |-> "contains", self |-> s, value |-> value,
                result |-> contains(The(s), value)]
    /\ iv' = [iv EXCEPT ![s] = <<Interval(The(s).start, at(value))>>]
    /\ UNCHANGED <<origin, pts, ord>>

\* s.contains(value)
Contains(s, value) ==
    /\ Built(s)
    /\ last' = [op |-> "contains", self |-> s, value |-> value,
                result |-> contains(The(s), value)]
    /\ UNCHANGED <<iv, origin, pts, ord>>

\* s.overlaps(&t)
Overlaps(s, t) ==
    /\ Built(s)
    /\ Built(t)
    /\ last' = [op |-> "overlaps", self |-> s, other |-> t,
                result |-> overlaps(The(s), The(t))]
    /\ UNCHANGED <<iv, origin, pts, ord>>

\* The binding s goes out of scope: the interval's lifetime ends.
Drop(s) ==
    /\ Built(s)
    /\ iv' = [iv EXCEPT ![s] = <<>>]
    /\ origin' = [origin EXCEPT ![s] = NoCall]
    /\ last' = [op |-> "drop", self |-> s]
    /\ UNCHANGED <<pts, ord>>

NoPts == [n \in {"x", "y", "z"} |-> neg_infinity]
NoOrd == <<>>

Init ==
    /\ iv = [s \in Slots |-> <<>>]
    /\ origin = [s \in Slots |-> NoCall]
    /\ last = NoCall
    /\ pts = NoPts
    /\ ord = NoOrd

Next ==
    \/ \E s \in Slots, start \in Values, end \in Values, kind \in IntervalType :
          FromTo(s, start, end, kind)
    \/ \E s \in Slots, f \in Unbounded, value \in Values : Factory(s, f, value)
    \/ \E s \in Slots, value \in Values : Contains(s, value)
    \/ \E s \in Slots, t \in Slots : Overlaps(s, t)
    \/ \E s \in Slots : Drop(s)

Spec == Init /\ [][Next]_vars

----------------------------------------------------------------------------
(* A caller comparing bound points: three points, compared pairwise        *)

PointNames == {"x", "y", "z"}

ComparedPairs == {<<"x", "y">>, <<"y", "x">>, <<"y", "z">>, <<"x", "z">>}

\* pts[m].cmp(&pts[n])
Compare(m, n) ==
    /\ <<m, n>> \notin DOMAIN ord
    /\ ord' = [pr \in DOMAIN ord \cup {<<m, n>>} |->
                 IF pr = <<m, n>> THEN CmpBoundPoint(pts[m], pts[n]) ELSE ord[pr]]
    /\ UNCHANGED <<iv, origin, last, pts>>

InitOrd ==
    /\ iv = [s \in Slots |-> <<>>]
    /\ origin = [s \in Slots |-> NoCall]
    /\ last = NoCall
    /\ pts \in [PointNames -> BoundPoint]
    /\ ord = NoOrd

NextOrd == \E pr \in ComparedPairs : Compare(pr[1], pr[2])

SpecOrd == InitOrd /\ [][NextOrd]_vars

----------------------------------------------------------------------------
(* Vocabulary of the properties                                            *)

\* Integers that can decide whether two intervals with endpoints in Values
\* share an integer: one below and one above every endpoint are included.
ProbeValues == (0 - 1)..(MaxVal + 1)

\* The mathematical membership test of an interval kind.
Member(kind, s, e, v) ==
    CASE kind = "Open"      -> s < v /\ v < e
      [] kind = "StartOpen" -> s < v /\ v <= e
      [] kind = "EndOpen"   -> s <= v /\ v < e
      [] kind = "Close"     -> s <= v /\ v <= e

\* The mathematical membership test of an unbounded factory.
MemberUnbounded(f, x, v) ==
    CASE f = "since_exclusive" -> v > x
      [] f = "since_inclusive" -> v >= x
      [] f = "until_exclusive" -> v < x
      [] f = "until_inclusive" -> v <= x

\* The interval the factory call recorded for binding s returned.
OriginInterval(s) ==
    IF origin[s].op = "from_to" THEN origin[s].result.val ELSE origin[s].result

SharedValue(i, j) == \E v \in ProbeValues : contains(i, v) /\ contains(j, v)

\* p lies between the two bounds of i in the order of bound points.
Within(i, p) == Le(i.start, p) /\ Le(p, i.end)

SharedBoundPoint(i, j) == \E p \in BoundPoint : Within(i, p) /\ Within(j, p)

\* Every finite endpoint of the interval in binding s is inclusive.
Inclusive(s) ==
    \/ origin[s].op \in {"since_inclusive", "until_inclusive"}
    \/ origin[s].op = "from_to" /\ origin[s].kind = "Close"

Since == {"since_exclusive", "since_inclusive"}
Until == {"until_exclusive", "until_inclusive"}

----------------------------------------------------------------------------
(* Properties of Spec                                                      *)

\* C1: from_to(start, end, kind) returns Err(StartMustBeMinorThanEnd) exactly
\* when start > end, and Ok otherwise (so also when start = end), for every
\* kind.
C1_FromToErrIffStartGreater ==
    last.op = "from_to" =>
        /\ last.result.tag \in {"Ok", "Err"}
        /\ (last.result.tag = "Err") <=> (last.start > last.end)
        /\ last.result.tag = "Err" => last.result.err = "StartMustBeMinorThanEnd"

C1_Witness ==
    /\ last.op = "from_to"
    /\ last.start = last.end
    /\ last.kind = "Open"
    /\ last.result.tag = "Ok"

\* C2: contains on an interval built by from_to(s, e, kind) is the mathematical
\* membership test of that kind; from_to(x, x, Open) contains nothing.
C2_ContainsIsMembership ==
    (last.op = "contains" /\ origin[last.self].op = "from_to") =>
        LET o == origin[last.self]
        IN  /\ last.result = Member(o.kind, o.start, o.end, last.value)
            /\ (o.kind = "Open" /\ o.start = o.end) => ~last.result

C2_Witness ==
    /\ last.op = "contains"
    /\ origin[last.self].op = "from_to"
    /\ origin[last.self].kind = "Open"
    /\ origin[last.self].start = origin[last.self].end
    /\ last.value = origin[last.self].start
    /\ ~last.result

\* C3: the four unbounded factories always return an interval, and contains
\* on it is v > x, v >= x, v < x, v <= x for since_exclusive, since_inclusive,
\* until_exclusive, until_inclusive.
C3_UnboundedMembership ==
    /\ last.op \in Unbounded =>
          /\ DOMAIN last.result = {"start", "end"}
          /\ last.result.start \in BoundPoint
          /\ last.result.end \in BoundPoint
    /\ (last.op = "contains" /\ origin[last.self].op \in Unbounded) =>
          last.result =
              MemberUnbounded(origin[last.self].op, origin[last.self].value, last.value)

C3_Witness ==
    /\ last.op = "contains"
    /\ origin[last.self].op = "since_exclusive"
    /\ origin[last.self].value = last.value
    /\ ~last.result

\* C4: overlaps is symmetric: the value a.overlaps(b) returned is the value of
\* b.overlaps(a).
C4_OverlapsSymmetric ==
    last.op = "overlaps" =>
        last.result = overlaps(The(last.other), The(last.self))

C4_Witness ==
    /\ last.op = "overlaps"
    /\ last.self # last.other
    /\ The(last.self) # The(last.other)
    /\ last.result

\* C5: if some value is contained in both intervals, overlaps returns true.
C5_SharedValueImpliesOverlap ==
    last.op = "overlaps" =>
        (SharedValue(The(last.self), The(last.other)) => last.result)

C5_Witness ==
    /\ last.op = "overlaps"
    /\ last.self # last.other
    /\ SharedValue(The(last.self), The(last.other))
    /\ last.result

\* C6 as stated: overlaps returns true exactly when some integer value is
\* contained in both intervals.
C6_OverlapsIffSharedValue ==
    last.op = "overlaps" =>
        (last.result <=> SharedValue(The(last.self), The(last.other)))

\* C6 as amended: when every finite endpoint of both intervals is inclusive,
\* overlaps returns true exactly when some integer value is contained in
\* both; and for any two intervals whose start bound is not above their end
\* bound, overlaps returns true exactly when some bound point (a value with a
\* proximity, or an infinity) lies within both.
C6_OverlapsIffSharedBoundPoint ==
    last.op = "overlaps" =>
        LET i == The(last.self)
            j == The(last.other)
        IN  /\ (Inclusive(last.self) /\ Inclusive(last.other)) =>
                  (last.result <=> SharedValue(i, j))
            /\ (Le(i.start, i.end) /\ Le(j.start, j.end)) =>
                  (last.result <=> SharedBoundPoint(i, j))

C6_Witness ==
    /\ last.op = "overlaps"
    /\ last.self # last.other
    /\ Le(The(last.self).start, The(last.self).end)
    /\ Le(The(last.other).start, The(last.other).end)
    /\ last.result
    /\ SharedBoundPoint(The(last.self), The(last.other))
    /\ ~SharedValue(The(last.self), The(last.other))

\* C7: for a < b < c, from_to(a, b, k1).overlaps(from_to(b, c, k2)) is true
\* exactly when k1 is StartOpen or Close and k2 is EndOpen or Close.
C7_TouchingEndpoints ==
    LET o1 == origin[last.self]
        o2 == origin[last.other]
    IN  (/\ last.op = "overlaps"
         /\ o1.op = "from_to"
         /\ o2.op = "from_to"
         /\ o1.start < o1.end
         /\ o1.end = o2.start
         /\ o2.start < o2.end) =>
            (last.result <=>
                (o1.kind \in {"StartOpen", "Close"} /\ o2.kind \in {"EndOpen", "Close"}))

C7_Witness ==
    /\ last.op = "overlaps"
    /\ origin[last.self].op = "from_to"
    /\ origin[last.other].op = "from_to"
    /\ origin[last.self].start < origin[last.self].end
    /\ origin[last.self].end = origin[last.other].start
    /\ origin[last.other].start < origin[last.other].end
    /\ origin[last.self].kind = "Close"
    /\ origin[last.other].kind = "Close"
    /\ last.result

\* C9: an interval is never changed between its construction and the end of
\* its lifetime: every step other than dropping a binding leaves the interval
\* in it as it was, every bound interval is the one its factory returned, and
\* a query repeated with the same arguments returns the same result.
C9_Immutable ==
    [][/\ \A s \in Slots :
             (Built(s) /\ ~(last'.op = "drop" /\ last'.self = s)) => iv'[s] = iv[s]
       /\ \A s \in Slots : (iv'[s] # <<>>) => iv'[s] = <<OriginInterval(s)'>>
       /\ (/\ last.op = "contains"
           /\ last'.op = "contains"
           /\ last'.self = last.self
           /\ last'.value = last.value) => last'.result = last.result
       /\ (/\ last.op = "overlaps"
           /\ last'.op = "overlaps"
           /\ last'.self = last.self
           /\ last'.other = last.other) => last'.result = last.result]_vars

C9_Witness ==
    /\ last.op = "overlaps"
    /\ last.self # last.other
    /\ \A s \in Slots : Built(s) /\ The(s) = OriginInterval(s)

\* C10: any two since_* intervals overlap, any two until_* intervals overlap,
\* and an until_* interval ending at x overlaps a since_* interval starting at
\* y exactly when y < x, or y = x and both are the inclusive variants.
C10_UnboundedOverlap ==
    LET o1 == origin[last.self]
        o2 == origin[last.other]
        Meets(u, s) ==
            \/ s.value < u.value
            \/ s.value = u.value /\ u.op = "until_inclusive" /\ s.op = "since_inclusive"
    IN  (last.op = "overlaps" /\ o1.op \in Unbounded /\ o2.op \in Unbounded) =>
            /\ (o1.op \in Since /\ o2.op \in Since) => last.result
            /\ (o1.op \in Until /\ o2.op \in Until) => last.result
            /\ (o1.op \in Until /\ o2.op \in Since) => (last.result <=> Meets(o1, o2))
            /\ (o1.op \in Since /\ o2.op \in Until) => (last.result <=> Meets(o2, o1))

C10_Witness ==
    /\ last.op = "overlaps"
    /\ origin[last.self].op = "until_inclusive"
    /\ origin[last.other].op = "since_inclusive"
    /\ origin[last.self].value = origin[last.other].value
    /\ last.result

----------------------------------------------------------------------------
(* Properties of SpecOrd                                                   *)

Reverse(o) ==
    CASE o = "Less"    -> "Greater"
      [] o = "Equal"   -> "Equal"
      [] o = "Greater" -> "Less"

\* Before < At < After, written out.
ProximityBelow == {<<"Before", "At">>, <<"At", "After">>, <<"Before", "After">>}

\* The order of two finite bound values: by value, then by proximity.
Lexicographic(p, q) ==
    IF p.value < q.value THEN "Less"
    ELSE IF q.value < p.value THEN "Greater"
    ELSE IF <<p.proximity, q.proximity>> \in ProximityBelow THEN "Less"
    ELSE IF <<q.proximity, p.proximity>> \in ProximityBelow THEN "Greater"
    ELSE "Equal"

\* C8: the comparison of bound points is a total order: every comparison
\* returns an Ordering, Equal only for equal points, the reverse comparison
\* returns the reverse Ordering, and the order is transitive; neg_infinity is
\* strictly below and pos_infinity strictly above every other point, and two
\* finite points compare by value and then by proximity, Before < At < After.
C8_TotalOrder ==
    /\ \A pr \in DOMAIN ord :
          LET p == pts[pr[1]].value
              q == pts[pr[2]].value
          IN  /\ ord[pr] \in Ordering
              /\ (ord[pr] = "Equal") <=> (pts[pr[1]] = pts[pr[2]])
              /\ (p.variant = "NegInfinity" /\ q.variant # "NegInfinity") =>
                    ord[pr] = "Less"
              /\ (q.variant = "NegInfinity" /\ p.variant # "NegInfinity") =>
                    ord[pr] = "Greater"
              /\ (p.variant = "PosInfinity" /\ q.variant # "PosInfinity") =>
                    ord[pr] = "Greater"
              /\ (q.variant = "PosInfinity" /\ p.variant # "PosInfinity") =>
                    ord[pr] = "Less"
              /\ (p.variant = "Finite" /\ q.variant = "Finite") =>
                    ord[pr] = Lexicographic(p, q)
    /\ ({<<"x", "y">>, <<"y", "x">>} \subseteq DOMAIN ord) =>
          ord[<<"y", "x">>] = Reverse(ord[<<"x", "y">>])
    /\ (ComparedPairs \subseteq DOMAIN ord) =>
          /\ (ord[<<"x", "y">>] # "Greater" /\ ord[<<"y", "z">>] # "Greater") =>
                ord[<<"x", "z">>] # "Greater"
          /\ (/\ ord[<<"x", "y">>] # "Greater"
              /\ ord[<<"y", "z">>] # "Greater"
              /\ "Less" \in {ord[<<"x", "y">>], ord[<<"y", "z">>]}) =>
                ord[<<"x", "z">>] = "Less"

C8_Witness ==
    /\ DOMAIN ord = ComparedPairs
    /\ pts["x"] = before(1)
    /\ pts["y"] = at(1)
    /\ pts["z"] = after(1)
    /\ ord[<<"x", "y">>] = "Less"
    /\ ord[<<"y", "z">>] = "Less"
    /\ ord[<<"x", "z">>] = "Less"

====
